---- MODULE Spec2Model ----
\* Scenario editor controller of OpenRCT2 (src/openrct2/Editor.cpp):
\* the session state machine, the object-selection and park validators and
\* the landscape-import cleanup.
EXTENDS Integers, Sequences, FiniteSets, TLC

\* ------------------------------------------------------------------ bounds
\* Side of the square map made by gameStateInitAll (DEFAULT_MAP_SIZE scaled down).
MapSizeN == 6
\* Longest entrance list of a park drawn for CheckPark.
MaxEntrances == 2

\* --------------------------------------------------------------- constants
SCREEN_FLAGS_PLAYING == 0
SCREEN_FLAGS_TITLE_DEMO == 1
SCREEN_FLAGS_SCENARIO_EDITOR == 2
SCREEN_FLAGS_TRACK_DESIGNER == 4
SCREEN_FLAGS_TRACK_MANAGER == 8
SCREEN_FLAGS_EDITOR == 14

MODAL_RESULT_OK == 1
MODAL_RESULT_CANCEL == 0

\* money64 counts tenths of a currency unit: 1.00_GBP is 10.
GBP(x) == x * 10
MAX_ENTRANCE_FEE == GBP(999)
MaxBankLoanInterestRate == 255

EditorSteps == {"ObjectSelection", "InventionsListSetUp", "OptionsSelection",
                "ObjectiveSelection", "LandscapeEditor", "SaveScenario",
                "RollercoasterDesigner", "DesignsManager", "Invalid"}

FootpathSearchResults == {"FOOTPATH_SEARCH_SUCCESS", "FOOTPATH_SEARCH_NOT_FOUND",
                          "FOOTPATH_SEARCH_INCOMPLETE", "FOOTPATH_SEARCH_TOO_COMPLEX"}

\* ------------------------------------------------------------------- state
VARIABLES
    gScreenFlags,      \* the screen-flags bitfield
    EditorStep,        \* gameState.EditorStep
    ScenarioCategory,  \* gameState.ScenarioCategory
    gameState,         \* the other world fields of the game state
    windows,           \* classes of the windows that are open
    objects,           \* content packs the object manager has loaded
    selectedGroups,    \* object groups with at least one selected entry
    editorSelectedObjectFlags,  \* _editorSelectedObjectFlags: per object type, a flag byte per entry
    trace,             \* collaborator calls made by the last operation, in order
    lastOp,            \* the last operation, its argument and what it returned
    convertPre         \* step, flags, category and world when the picker was opened

vars == <<gScreenFlags, EditorStep, ScenarioCategory, gameState, windows, objects,
          selectedGroups, editorSelectedObjectFlags, trace, lastOp, convertPre>>

\* --------------------------------------------------------------- bit tests
FlagBits == {1, 2, 4, 8}

Bits(n) == {b \in FlagBits : (n \div b) % 2 = 1}

\* (a & b) != 0
TestFlags(a, b) == Bits(a) \cap Bits(b) # {}

\* ------------------------------------------------------------------- world
Tiles == (0 .. MapSizeN - 1) \X (0 .. MapSizeN - 1)

\* Tiles a park entrance may stand on, and the direction in which the one
\* footpath that leaves each of them runs.
EntranceLocs == {<<3, 2>>, <<2, 3>>, <<3, 3>>}

PathDirection(loc) == IF loc = <<3, 2>> THEN 0 ELSE IF loc = <<2, 3>> THEN 3 ELSE 1

\* The world gameStateInitAll makes: an empty map, nothing owned, no entrances.
FreshWorld(mapSize) ==
    [ MapSize |-> mapSize,
      owned |-> {},
      forSale |-> {},
      ParkSize |-> 0,
      ParkFlags |-> {},
      EntranceFee |-> GBP(10),
      Entrances |-> << >>,
      Footpaths |-> [l \in EntranceLocs |-> "FOOTPATH_SEARCH_NOT_FOUND"],
      PeepSpawns |-> 0,
      Cash |-> GBP(10000),
      InitialCash |-> GBP(10000),
      GuestInitialCash |-> GBP(50),
      BankLoan |-> GBP(10000),
      MaxBankLoan |-> GBP(20000),
      BankLoanInterestRate |-> 10,
      NumGuestsInPark |-> 0,
      NumGuestsHeadingForPark |-> 0,
      NumGuestsInParkLastWeek |-> 0,
      GuestChangeModifier |-> 0,
      Rides |-> 0,
      Entities |-> 0,
      NamedPeeps |-> 0,
      Climate |-> "reset",
      News |-> 0,
      ScenarioName |-> "" ]

\* The state an operation works on, threaded through its calls.
Cur ==
    [ gScreenFlags |-> gScreenFlags,
      EditorStep |-> EditorStep,
      ScenarioCategory |-> ScenarioCategory,
      gameState |-> gameState,
      windows |-> windows,
      objects |-> objects,
      editorSelectedObjectFlags |-> editorSelectedObjectFlags,
      trace |-> << >> ]

Call(s, what, arg) == [s EXCEPT !.trace = Append(@, <<what, arg>>)]

Commit(s) ==
    /\ gScreenFlags' = s.gScreenFlags
    /\ EditorStep' = s.EditorStep
    /\ ScenarioCategory' = s.ScenarioCategory
    /\ gameState' = s.gameState
    /\ windows' = s.windows
    /\ objects' = s.objects
    /\ editorSelectedObjectFlags' = s.editorSelectedObjectFlags
    /\ trace' = s.trace

\* What the operation is recorded as: its name, its argument, how the load it
\* attempted ended, the flags and step it found, and its return values.
ReturnedOf(op, arg, outcome, before, ret) ==
    lastOp' = [op |-> op, arg |-> arg, outcome |-> outcome, before |-> before, ret |-> ret]

Returned(op, arg, ret) == ReturnedOf(op, arg, "", << >>, ret)

NoOp == [op |-> "", arg |-> "", outcome |-> "", before |-> << >>, ret |-> << >>]

\* ----------------------------------------------------------- collaborators
ContextOpenWindow(s, wc) ==
    [Call(s, "ContextOpenWindow", wc) EXCEPT !.windows = @ \cup {wc}]

WindowCloseAll(s) ==
    [Call(s, "WindowCloseAll", "") EXCEPT !.windows = {}]

WindowFindByClass(s, wc) == wc \in s.windows

ObjectManagerUnloadAllObjects(s) ==
    [Call(s, "ObjectManager::UnloadAll", "") EXCEPT !.objects = {}]

gameStateInitAll(s, mapSize) ==
    [Call(s, "gameStateInitAll", "") EXCEPT !.gameState = FreshWorld(mapSize)]

\* The tiles of a MapRange given in tile units, clamped to the map.
RangeTiles(w, x1, y1, x2, y2) ==
    {t \in Tiles : /\ t[1] >= x1 /\ t[1] <= x2 /\ t[2] >= y1 /\ t[2] <= y2
                   /\ t[1] < w.MapSize /\ t[2] < w.MapSize}

\* LandSetRightsAction(range, SetForSale): allowed in the editor only.
LandSetRightsForSale(s, range, noSpend) ==
    LET s1 == Call(s, "LandSetRightsAction::SetForSale", IF noSpend THEN "NO_SPEND" ELSE "")
    IN  IF TestFlags(s.gScreenFlags, SCREEN_FLAGS_EDITOR)
        THEN [s1 EXCEPT !.gameState.forSale = @ \cup (range \ s.gameState.owned)]
        ELSE s1

\* LandBuyRightsAction(range, BuyLand): buys the tiles that are for sale; with
\* the no-spend flag the cash is left alone.
LandBuyRightsBuyLand(s, range, noSpend) ==
    LET s1 == Call(s, "LandBuyRightsAction::BuyLand", IF noSpend THEN "NO_SPEND" ELSE "")
        bought == range \cap s.gameState.forSale
        cost == IF noSpend THEN 0 ELSE GBP(9) * Cardinality(bought)
    IN  IF TestFlags(s.gScreenFlags, SCREEN_FLAGS_SCENARIO_EDITOR)
        THEN s1
        ELSE [s1 EXCEPT !.gameState.owned = @ \cup bought,
                        !.gameState.forSale = @ \ bought,
                        !.gameState.Cash = @ - cost]

\* ------------------------------------------------------- session controller
\* Faulty variant: the flag table is emptied with the object list.
ObjectListLoadClearingFlags(s) ==
    LET s1 == ObjectManagerUnloadAllObjects(s)
        s2 == Call(s1, "ObjectRepository::LoadOrConstruct", "")
        s3 == Call(s2, "Audio::LoadAudioObjects", "")
    IN  [Call(s3, "ObjectManager::LoadObject", "MinimumRequiredObjects")
            EXCEPT !.objects = @ \cup {"MinimumRequiredObjects"},
                   !.editorSelectedObjectFlags = [objectType \in DOMAIN @ |-> << >>]]

ObjectListLoad(s) ==
    LET s1 == ObjectManagerUnloadAllObjects(s)
        s2 == Call(s1, "ObjectRepository::LoadOrConstruct", "")
        s3 == Call(s2, "Audio::LoadAudioObjects", "")
    IN  [Call(s3, "ObjectManager::LoadObject", "MinimumRequiredObjects")
            EXCEPT !.objects = @ \cup {"MinimumRequiredObjects"}]

OpenEditorWindows(s) ==
    LET s1 == ContextOpenWindow(s, "MainWindow")
        s2 == ContextOpenWindow(s1, "TopToolbar")
    IN  ContextOpenWindow(s2, "EditorBottomToolbar")

FinaliseMainView(s) ==
    LET s1 == Call(s, "WindowManager::SetMainView", "SavedView")
        s2 == Call(s1, "ResetAllSpriteQuadrantPlacements", "")
        s3 == Call(s2, "ScenerySetDefaultPlacementConfiguration", "")
        s4 == Call(s3, "BroadcastIntent", "INTENT_ACTION_REFRESH_NEW_RIDES")
        s5 == Call(s4, "gWindowUpdateTicks", "0")
        s6 == Call(s5, "LoadPalette", "")
    IN  Call(s6, "BroadcastIntent", "INTENT_ACTION_CLEAR_TILE_INSPECTOR_CLIPBOARD")

\* Faulty variant: the land is bought before it is put up for sale.
SetAllLandOwnedBuyingFirst(s) ==
    LET range == RangeTiles(s.gameState, 2, 2, s.gameState.MapSize - 3, s.gameState.MapSize - 3)
        s1 == LandBuyRightsBuyLand(s, range, TRUE)
    IN  LandSetRightsForSale(s1, range, TRUE)

SetAllLandOwned(s) ==
    LET range == RangeTiles(s.gameState, 2, 2, s.gameState.MapSize - 3, s.gameState.MapSize - 3)
        s1 == LandSetRightsForSale(s, range, TRUE)
    IN  LandBuyRightsBuyLand(s1, range, TRUE)

\* Faulty variant: only the lower limit is enforced.
ClampBelowOnly(v, lo, hi) == IF v < lo THEN lo ELSE v

\* std::clamp and std::min
Clamp(v, lo, hi) == IF v < lo THEN lo ELSE IF hi < v THEN hi ELSE v

Min(a, b) == IF b < a THEN b ELSE a

\* Faulty variant: the cash is reset before the initial cash is limited.
ClearMapForEditingRefreshingFirst(s, fromSave) ==
    LET s1 == Call(s, "MapRemoveAllRides", "")
        s2 == Call(s1, "UnlinkAllRideBanners", "")
        s3 == [Call(s2, "RideInitAll", "") EXCEPT !.gameState.Rides = 0]
        s4 == [Call(s3, "SetName", "") EXCEPT !.gameState.NamedPeeps = 0]
        s5 == [Call(s4, "ResetAllEntities", "") EXCEPT !.gameState.Entities = 0]
        s6 == Call(s5, "UpdateConsolidatedPatrolAreas", "")
        s7 == [s6 EXCEPT !.gameState.NumGuestsInPark = 0,
                         !.gameState.NumGuestsHeadingForPark = 0,
                         !.gameState.NumGuestsInParkLastWeek = 0,
                         !.gameState.GuestChangeModifier = 0]
        f1 == [s7 EXCEPT !.gameState.ParkFlags =
                   IF s7.gameState.EntranceFee = 0
                   THEN (@ \cup {"PARK_FLAGS_NO_MONEY", "PARK_FLAGS_PARK_FREE_ENTRY"})
                            \ {"PARK_FLAGS_SPRITES_INITIALISED"}
                   ELSE (@ \cup {"PARK_FLAGS_NO_MONEY"})
                            \ {"PARK_FLAGS_PARK_FREE_ENTRY", "PARK_FLAGS_SPRITES_INITIALISED"}]
        f2 == [Call(f1, "clamp", "GuestInitialCash") EXCEPT
                   !.gameState.GuestInitialCash = Clamp(@, GBP(10), MAX_ENTRANCE_FEE)]
        f3 == [Call(f2, "FinanceResetCashToInitial", "") EXCEPT
                   !.gameState.Cash = f2.gameState.InitialCash]
        f4 == [Call(f3, "clamp", "InitialCash") EXCEPT
                   !.gameState.InitialCash = Min(@, 100000)]
        f5 == [Call(f4, "clamp", "BankLoan") EXCEPT
                   !.gameState.BankLoan = Clamp(@, GBP(0), GBP(5000000))]
        f6 == [Call(f5, "clamp", "MaxBankLoan") EXCEPT
                   !.gameState.MaxBankLoan = Clamp(@, GBP(0), GBP(5000000))]
        f7 == [Call(f6, "clamp", "BankLoanInterestRate") EXCEPT
                   !.gameState.BankLoanInterestRate = Clamp(@, 5, MaxBankLoanInterestRate)]
        s8 == IF fromSave THEN f7 ELSE s7
        s9 == [Call(s8, "ClimateReset", "") EXCEPT !.gameState.Climate = "reset"]
    IN  [Call(s9, "News::InitQueue", "") EXCEPT !.gameState.News = 0]

ClearMapForEditing(s, fromSave) ==
    LET s1 == Call(s, "MapRemoveAllRides", "")
        s2 == Call(s1, "UnlinkAllRideBanners", "")
        s3 == [Call(s2, "RideInitAll", "") EXCEPT !.gameState.Rides = 0]
        s4 == [Call(s3, "SetName", "") EXCEPT !.gameState.NamedPeeps = 0]
        s5 == [Call(s4, "ResetAllEntities", "") EXCEPT !.gameState.Entities = 0]
        s6 == Call(s5, "UpdateConsolidatedPatrolAreas", "")
        s7 == [s6 EXCEPT !.gameState.NumGuestsInPark = 0,
                         !.gameState.NumGuestsHeadingForPark = 0,
                         !.gameState.NumGuestsInParkLastWeek = 0,
                         !.gameState.GuestChangeModifier = 0]
        f1 == [s7 EXCEPT !.gameState.ParkFlags =
                   IF s7.gameState.EntranceFee = 0
                   THEN (@ \cup {"PARK_FLAGS_NO_MONEY", "PARK_FLAGS_PARK_FREE_ENTRY"})
                            \ {"PARK_FLAGS_SPRITES_INITIALISED"}
                   ELSE (@ \cup {"PARK_FLAGS_NO_MONEY"})
                            \ {"PARK_FLAGS_PARK_FREE_ENTRY", "PARK_FLAGS_SPRITES_INITIALISED"}]
        f2 == [Call(f1, "clamp", "GuestInitialCash") EXCEPT
                   !.gameState.GuestInitialCash = Clamp(@, GBP(10), MAX_ENTRANCE_FEE)]
        f3 == [Call(f2, "clamp", "InitialCash") EXCEPT
                   !.gameState.InitialCash = Min(@, 100000)]
        f4 == [Call(f3, "FinanceResetCashToInitial", "") EXCEPT
                   !.gameState.Cash = f3.gameState.InitialCash]
        f5 == [Call(f4, "clamp", "BankLoan") EXCEPT
                   !.gameState.BankLoan = Clamp(@, GBP(0), GBP(5000000))]
        f6 == [Call(f5, "clamp", "MaxBankLoan") EXCEPT
                   !.gameState.MaxBankLoan = Clamp(@, GBP(0), GBP(5000000))]
        f7 == [Call(f6, "clamp", "BankLoanInterestRate") EXCEPT
                   !.gameState.BankLoanInterestRate = Clamp(@, 5, MaxBankLoanInterestRate)]
        s8 == IF fromSave THEN f7 ELSE s7
        s9 == [Call(s8, "ClimateReset", "") EXCEPT !.gameState.Climate = "reset"]
    IN  [Call(s9, "News::InitQueue", "") EXCEPT !.gameState.News = 0]

\* Faulty variant: the editor step is left as the imported park has it.
AfterLoadCleanupWithoutStep(s, loadedFromSave) ==
    LET s1 == Call(s, "ClearMapForEditing", IF loadedFromSave THEN "fromSave" ELSE "notFromSave")
        s2 == ClearMapForEditing(s1, loadedFromSave)
        s4 == Call(s2, "gScreenAge", "0")
        s5 == [s4 EXCEPT !.gScreenFlags = SCREEN_FLAGS_SCENARIO_EDITOR]
        s6 == Call(s5, "ViewportInitAll", "")
        s7 == OpenEditorWindows(s6)
    IN  FinaliseMainView(s7)

AfterLoadCleanup(s, loadedFromSave) ==
    LET s1 == Call(s, "ClearMapForEditing", IF loadedFromSave THEN "fromSave" ELSE "notFromSave")
        s2 == ClearMapForEditing(s1, loadedFromSave)
        s3 == [s2 EXCEPT !.EditorStep = "LandscapeEditor"]
        s4 == Call(s3, "gScreenAge", "0")
        s5 == [s4 EXCEPT !.gScreenFlags = SCREEN_FLAGS_SCENARIO_EDITOR]
        s6 == Call(s5, "ViewportInitAll", "")
        s7 == OpenEditorWindows(s6)
    IN  FinaliseMainView(s7)

\* ------------------------------------------------------------- park files
\* A saved game: a running park, its finances outside the editor's ranges.
SavedPark ==
    [FreshWorld(MapSizeN) EXCEPT
        !.owned = {<<2, 2>>, <<3, 2>>, <<3, 3>>},
        !.ParkSize = 3,
        !.ParkFlags = {"PARK_FLAGS_PARK_OPEN", "PARK_FLAGS_SPRITES_INITIALISED",
                       "PARK_FLAGS_PARK_FREE_ENTRY"},
        !.EntranceFee = GBP(20),
        !.Entrances = <<[loc |-> <<3, 2>>, direction |-> 2]>>,
        !.Footpaths = [l \in EntranceLocs |->
                          IF l = <<3, 2>> THEN "FOOTPATH_SEARCH_SUCCESS"
                          ELSE "FOOTPATH_SEARCH_NOT_FOUND"],
        !.PeepSpawns = 1,
        !.Cash = GBP(123456),
        !.InitialCash = GBP(25000),
        !.GuestInitialCash = GBP(5),
        !.BankLoan = GBP(10000000),
        !.MaxBankLoan = GBP(6000000),
        !.BankLoanInterestRate = 2,
        !.NumGuestsInPark = 7,
        !.NumGuestsHeadingForPark = 2,
        !.NumGuestsInParkLastWeek = 5,
        !.GuestChangeModifier = 1,
        !.Rides = 3,
        !.Entities = 12,
        !.NamedPeeps = 2,
        !.Climate = "file",
        !.News = 4,
        !.ScenarioName = "Saved park"]

\* A scenario: no guests yet, free entry, finances inside the ranges.
ScenarioPark ==
    [FreshWorld(MapSizeN) EXCEPT
        !.owned = {<<2, 2>>},
        !.ParkSize = 1,
        !.ParkFlags = {"PARK_FLAGS_SHOW_REAL_GUEST_NAMES"},
        !.EntranceFee = 0,
        !.Cash = GBP(5000),
        !.InitialCash = GBP(5000),
        !.GuestInitialCash = GBP(2000),
        !.BankLoanInterestRate = 3,
        !.Rides = 1,
        !.Climate = "file",
        !.News = 1,
        !.ScenarioName = "Scenario"]

ParkContents == {"saved", "scenario"}

\* What a park file holds: the world, the editor step and the category.
ParkOf(content) ==
    IF content = "saved"
    THEN [gameState |-> SavedPark, EditorStep |-> "Invalid",
          ScenarioCategory |-> "SCENARIO_CATEGORY_REAL"]
    ELSE [gameState |-> ScenarioPark, EditorStep |-> "SaveScenario",
          ScenarioCategory |-> "SCENARIO_CATEGORY_CHALLENGING"]

\* The extensions of the paths handed to the controller.
Extensions == {".sc4", ".sv4", ".sc6", ".sv6", ".SC6", ".SV6", ".park", ".td6"}

\* The paths handed to the controller: a save extension names a saved game, a
\* scenario extension a scenario, a native park file either.
Paths ==
    {p \in [ext : Extensions, content : ParkContents] :
        \/ p.ext \in {".sv4", ".sv6", ".SV6"} /\ p.content = "saved"
        \/ p.ext \in {".sc4", ".sc6", ".SC6", ".td6"} /\ p.content = "scenario"
        \/ p.ext = ".park"}

\* Lower-casing over the alphabet of Extensions.
ToLower(e) == IF e = ".SC6" THEN ".sc6" ELSE IF e = ".SV6" THEN ".sv6" ELSE e

\* String::IEquals: equality that ignores case.
IEquals(a, b) == ToLower(a) = ToLower(b)

\* Path::GetExtension: a path is kept as its extension and its content.
GetExtension(path) == path.ext

GetFileExtensionType(path) ==
    LET e == ToLower(path.ext)
    IN  IF e = ".sc4" THEN "SC4"
        ELSE IF e = ".sv4" THEN "SV4"
        ELSE IF e = ".sc6" THEN "SC6"
        ELSE IF e = ".sv6" THEN "SV6"
        ELSE IF e = ".park" THEN "PARK"
        ELSE "Unknown"

\* The importer applies the whole park of the file: world, step and category,
\* with the content packs the park requires.
ImportPark(s, path) ==
    LET park == ParkOf(path.content)
    IN  [Call(s, "ParkImporter::Import", "") EXCEPT
            !.gameState = park.gameState,
            !.EditorStep = park.EditorStep,
            !.ScenarioCategory = park.ScenarioCategory]

LoadObjects(s) ==
    [Call(s, "ObjectManager::LoadObjects", "RequiredObjects") EXCEPT
        !.objects = {"RequiredObjects"}]

\* Context::LoadParkFromFile: on success the whole park is applied; on failure
\* nothing is.
LoadParkFromFile(s, path, loadSuccess) ==
    LET s1 == Call(s, "Context::LoadParkFromFile", "")
    IN  IF loadSuccess THEN ImportPark(LoadObjects(s1), path) ELSE s1

\* Where a load may fail: nowhere, in the importer's Load, in the object
\* manager's LoadObjects, or in the importer's Import.
ImportOutcomes == {"ok", "Load", "LoadObjects", "Import"}

\* ------------------------------------------------------------ entry points
Snapshot ==
    [EditorStep |-> EditorStep, gScreenFlags |-> gScreenFlags,
     ScenarioCategory |-> ScenarioCategory, gameState |-> gameState]

\* The snapshot taken when the picker was opened is kept while the picker is
\* open and through the callback that closes it.
KeepSnapshot == convertPre' = IF "Loadsave" \in windows' THEN convertPre ELSE << >>

LoadEditor(s) ==
    LET s1 == Call(s, "Audio::StopAll", "")
        s2 == ObjectListLoad(s1)
        s3 == gameStateInitAll(s2, MapSizeN)
        s4 == [s3 EXCEPT !.gScreenFlags = SCREEN_FLAGS_SCENARIO_EDITOR,
                         !.EditorStep = "ObjectSelection",
                         !.gameState.ParkFlags = @ \cup {"PARK_FLAGS_SHOW_REAL_GUEST_NAMES"},
                         !.ScenarioCategory = "SCENARIO_CATEGORY_OTHER"]
        s5 == Call(s4, "ViewportInitAll", "")
        s6 == OpenEditorWindows(s5)
        s7 == Call(s6, "SetLocation", "75,75,14")
        s8 == Call(s7, "LoadPalette", "")
        s9 == Call(s8, "gScreenAge", "0")
    IN  [s9 EXCEPT !.gameState.ScenarioName = "STR_MY_NEW_SCENARIO"]

Load ==
    /\ Commit(LoadEditor(Cur))
    /\ Returned("Load", "", << >>)
    /\ KeepSnapshot
    /\ UNCHANGED selectedGroups

ConvertSaveToScenario ==
    /\ Commit(ContextOpenWindow(Call(Cur, "ToolCancel", ""), "Loadsave"))
    /\ convertPre' = <<Snapshot>>
    /\ Returned("ConvertSaveToScenario", "", << >>)
    /\ UNCHANGED selectedGroups

\* Faulty variant: the flags, step and category are set before the park is loaded.
ConvertCallbackSetsModeFirst(s, result, path, loadSuccess) ==
    IF result # MODAL_RESULT_OK
    THEN [s |-> s, done |-> FALSE]
    ELSE LET s0 == [s EXCEPT !.gScreenFlags = SCREEN_FLAGS_SCENARIO_EDITOR,
                             !.EditorStep = "ObjectiveSelection",
                             !.ScenarioCategory = "SCENARIO_CATEGORY_OTHER"]
         IN  IF ~loadSuccess
             THEN [s |-> LoadParkFromFile(s0, path, FALSE), done |-> FALSE]
             ELSE LET s1 == LoadParkFromFile(s, path, TRUE)
                      s2 == Call(s1, "ScenarioReset", "")
                      s3 == [s2 EXCEPT !.gScreenFlags = SCREEN_FLAGS_SCENARIO_EDITOR,
                                       !.EditorStep = "ObjectiveSelection",
                                       !.ScenarioCategory = "SCENARIO_CATEGORY_OTHER"]
                      s4 == Call(s3, "ViewportInitAll", "")
                      s5 == OpenEditorWindows(s4)
                      s6 == FinaliseMainView(s5)
                  IN  [s |-> Call(s6, "gScreenAge", "0"), done |-> TRUE]

\* Faulty variant: the screen flags are left as the callback found them.
ConvertCallbackKeepsFlags(s, result, path, loadSuccess) ==
    IF result # MODAL_RESULT_OK
    THEN [s |-> s, done |-> FALSE]
    ELSE IF ~loadSuccess
    THEN [s |-> LoadParkFromFile(s, path, FALSE), done |-> FALSE]
    ELSE LET s1 == LoadParkFromFile(s, path, TRUE)
             s2 == Call(s1, "ScenarioReset", "")
             s3 == [s2 EXCEPT !.EditorStep = "ObjectiveSelection",
                              !.ScenarioCategory = "SCENARIO_CATEGORY_OTHER"]
             s4 == Call(s3, "ViewportInitAll", "")
             s5 == OpenEditorWindows(s4)
             s6 == FinaliseMainView(s5)
         IN  [s |-> Call(s6, "gScreenAge", "0"), done |-> TRUE]

\* Returns the state and whether the conversion went through.
ConvertCallback(s, result, path, loadSuccess) ==
    IF result # MODAL_RESULT_OK
    THEN [s |-> s, done |-> FALSE]
    ELSE IF ~loadSuccess
    THEN [s |-> LoadParkFromFile(s, path, FALSE), done |-> FALSE]
    ELSE LET s1 == LoadParkFromFile(s, path, TRUE)
             s2 == Call(s1, "ScenarioReset", "")
             s3 == [s2 EXCEPT !.gScreenFlags = SCREEN_FLAGS_SCENARIO_EDITOR,
                              !.EditorStep = "ObjectiveSelection",
                              !.ScenarioCategory = "SCENARIO_CATEGORY_OTHER"]
             s4 == Call(s3, "ViewportInitAll", "")
             s5 == OpenEditorWindows(s4)
             s6 == FinaliseMainView(s5)
         IN  [s |-> Call(s6, "gScreenAge", "0"), done |-> TRUE]

\* The picker delivers its result and closes.
ConvertSaveToScenarioCallback(result, path, loadSuccess) ==
    /\ "Loadsave" \in windows
    /\ LET r == ConvertCallback([Cur EXCEPT !.windows = @ \ {"Loadsave"}],
                                result, path, loadSuccess)
       IN  /\ Commit(r.s)
           /\ ReturnedOf("ConvertSaveToScenarioCallback", "",
                         IF result # MODAL_RESULT_OK THEN "Cancel"
                         ELSE IF loadSuccess THEN "ok" ELSE "Load",
                         <<gScreenFlags, EditorStep>>, <<r.done>>)
    /\ UNCHANGED <<selectedGroups, convertPre>>

\* Faulty variant: the editor step is not set.
LoadTrackEditorWithoutStep(s, flag) ==
    LET s1 == Call(s, "Audio::StopAll", "")
        s2 == [s1 EXCEPT !.gScreenFlags = flag]
        s3 == Call(s2, "gScreenAge", "0")
        s4 == ObjectManagerUnloadAllObjects(s3)
        s5 == ObjectListLoad(s4)
        s6 == gameStateInitAll(s5, MapSizeN)
        s7 == SetAllLandOwned(s6)
        s9 == Call(s7, "ViewportInitAll", "")
        s10 == OpenEditorWindows(s9)
        s11 == Call(s10, "SetLocation", "75,75,14")
    IN  Call(s11, "LoadPalette", "")

LoadTrackEditor(s, flag) ==
    LET s1 == Call(s, "Audio::StopAll", "")
        s2 == [s1 EXCEPT !.gScreenFlags = flag]
        s3 == Call(s2, "gScreenAge", "0")
        s4 == ObjectManagerUnloadAllObjects(s3)
        s5 == ObjectListLoad(s4)
        s6 == gameStateInitAll(s5, MapSizeN)
        s7 == SetAllLandOwned(s6)
        s8 == [s7 EXCEPT !.EditorStep = "ObjectSelection"]
        s9 == Call(s8, "ViewportInitAll", "")
        s10 == OpenEditorWindows(s9)
        s11 == Call(s10, "SetLocation", "75,75,14")
    IN  Call(s11, "LoadPalette", "")

LoadTrackDesigner ==
    /\ Commit(LoadTrackEditor(Cur, SCREEN_FLAGS_TRACK_DESIGNER))
    /\ Returned("LoadTrackDesigner", "", << >>)
    /\ KeepSnapshot
    /\ UNCHANGED selectedGroups

LoadTrackManager ==
    /\ Commit(LoadTrackEditor(Cur, SCREEN_FLAGS_TRACK_MANAGER))
    /\ Returned("LoadTrackManager", "", << >>)
    /\ KeepSnapshot
    /\ UNCHANGED selectedGroups

BoolToInt(b) == IF b THEN 1 ELSE 0

\* The test of ReadS4OrS6, as C++ groups it: a || b || (c == 0).
LoadedFromSave(extension) ==
    \/ IEquals(extension, ".sv4")
    \/ IEquals(extension, ".sv6")
    \/ BoolToInt(IEquals(extension, ".sv7")) = 0

\* Faulty variant: the cleanup runs before the result of the load is looked at.
ReadS4OrS6CleanupFirst(s, path, outcome) ==
    LET extension == GetExtension(path)
        loadSuccess == outcome = "ok"
        s1 == LoadParkFromFile(s, path, loadSuccess)
        s2 == AfterLoadCleanup(s1, LoadedFromSave(extension))
    IN  [s |-> s2, ret |-> loadSuccess]

ReadS4OrS6(s, path, outcome) ==
    LET extension == GetExtension(path)
        loadSuccess == outcome = "ok"
        s1 == LoadParkFromFile(s, path, loadSuccess)
    IN  IF ~loadSuccess
        THEN [s |-> s1, ret |-> FALSE]
        ELSE [s |-> AfterLoadCleanup(s1, LoadedFromSave(extension)), ret |-> TRUE]

\* A failure inside the try block is caught and turned into false.
ReadPark(s, path, outcome) ==
    LET s1 == Call(s, "ParkImporter::Load", "")
    IN  IF outcome = "Load" THEN [s |-> s1, ret |-> FALSE]
        ELSE IF outcome = "LoadObjects"
        THEN [s |-> Call(s1, "ObjectManager::LoadObjects", "RequiredObjects"), ret |-> FALSE]
        ELSE IF outcome = "Import"
        THEN [s |-> Call(LoadObjects(s1), "ParkImporter::Import", ""), ret |-> FALSE]
        ELSE [s |-> AfterLoadCleanup(ImportPark(LoadObjects(s1), path), TRUE), ret |-> TRUE]

\* Faulty variant: the windows are closed only when the extension is known.
LoadLandscapeFromKnownOnly(s, path, outcome) ==
    LET s1 == WindowCloseAll(s)
        extension == GetFileExtensionType(path)
    IN  IF extension \in {"SC6", "SV6", "SC4", "SV4"} THEN ReadS4OrS6(s1, path, outcome)
        ELSE IF extension = "PARK" THEN ReadPark(s1, path, outcome)
        ELSE [s |-> s, ret |-> FALSE]

LoadLandscapeFrom(s, path, outcome) ==
    LET s1 == WindowCloseAll(s)
        extension == GetFileExtensionType(path)
    IN  IF extension \in {"SC6", "SV6", "SC4", "SV4"} THEN ReadS4OrS6(s1, path, outcome)
        ELSE IF extension = "PARK" THEN ReadPark(s1, path, outcome)
        ELSE [s |-> s1, ret |-> FALSE]

LoadLandscape(path, outcome) ==
    /\ LET r == LoadLandscapeFrom(Cur, path, outcome)
       IN  /\ Commit(r.s)
           /\ ReturnedOf("LoadLandscape", path.ext, outcome, << >>, <<r.ret>>)
    /\ KeepSnapshot
    /\ UNCHANGED selectedGroups

\* Faulty variant: the object selection is opened without a look for one that is open.
OpenWindowsForWithoutLookup(s) ==
    IF ~TestFlags(s.gScreenFlags, SCREEN_FLAGS_EDITOR) THEN s
    ELSE IF s.EditorStep = "ObjectSelection"
    THEN IF WindowFindByClass(s, "InstallTrack") THEN s
         ELSE ContextOpenWindow(
                  IF TestFlags(s.gScreenFlags, SCREEN_FLAGS_TRACK_MANAGER)
                  THEN ObjectManagerUnloadAllObjects(s) ELSE s,
                  "EditorObjectSelection")
    ELSE IF s.EditorStep = "InventionsListSetUp"
    THEN IF WindowFindByClass(s, "EditorInventionList") THEN s
         ELSE ContextOpenWindow(s, "EditorInventionList")
    ELSE IF s.EditorStep = "OptionsSelection"
    THEN IF WindowFindByClass(s, "EditorScenarioOptions") THEN s
         ELSE ContextOpenWindow(s, "EditorScenarioOptions")
    ELSE IF s.EditorStep = "ObjectiveSelection"
    THEN IF WindowFindByClass(s, "EditorObjectiveOptions") THEN s
         ELSE ContextOpenWindow(s, "EditorObjectiveOptions")
    ELSE s

\* Faulty variant: the objects are unloaded before the install-track window is looked for.
OpenWindowsForUnloadingEarly(s) ==
    IF ~TestFlags(s.gScreenFlags, SCREEN_FLAGS_EDITOR) THEN s
    ELSE IF s.EditorStep = "ObjectSelection"
    THEN IF WindowFindByClass(s, "EditorObjectSelection") THEN s
         ELSE LET s1 == IF TestFlags(s.gScreenFlags, SCREEN_FLAGS_TRACK_MANAGER)
                        THEN ObjectManagerUnloadAllObjects(s) ELSE s
              IN  IF WindowFindByClass(s1, "InstallTrack") THEN s1
                  ELSE ContextOpenWindow(s1, "EditorObjectSelection")
    ELSE IF s.EditorStep = "InventionsListSetUp"
    THEN IF WindowFindByClass(s, "EditorInventionList") THEN s
         ELSE ContextOpenWindow(s, "EditorInventionList")
    ELSE IF s.EditorStep = "OptionsSelection"
    THEN IF WindowFindByClass(s, "EditorScenarioOptions") THEN s
         ELSE ContextOpenWindow(s, "EditorScenarioOptions")
    ELSE IF s.EditorStep = "ObjectiveSelection"
    THEN IF WindowFindByClass(s, "EditorObjectiveOptions") THEN s
         ELSE ContextOpenWindow(s, "EditorObjectiveOptions")
    ELSE s

OpenWindowsFor(s) ==
    IF ~TestFlags(s.gScreenFlags, SCREEN_FLAGS_EDITOR) THEN s
    ELSE IF s.EditorStep = "ObjectSelection"
    THEN IF WindowFindByClass(s, "EditorObjectSelection") THEN s
         ELSE IF WindowFindByClass(s, "InstallTrack") THEN s
         ELSE ContextOpenWindow(
                  IF TestFlags(s.gScreenFlags, SCREEN_FLAGS_TRACK_MANAGER)
                  THEN ObjectManagerUnloadAllObjects(s) ELSE s,
                  "EditorObjectSelection")
    ELSE IF s.EditorStep = "InventionsListSetUp"
    THEN IF WindowFindByClass(s, "EditorInventionList") THEN s
         ELSE ContextOpenWindow(s, "EditorInventionList")
    ELSE IF s.EditorStep = "OptionsSelection"
    THEN IF WindowFindByClass(s, "EditorScenarioOptions") THEN s
         ELSE ContextOpenWindow(s, "EditorScenarioOptions")
    ELSE IF s.EditorStep = "ObjectiveSelection"
    THEN IF WindowFindByClass(s, "EditorObjectiveOptions") THEN s
         ELSE ContextOpenWindow(s, "EditorObjectiveOptions")
    ELSE s

OpenWindowsForCurrentStep ==
    /\ Commit(OpenWindowsFor(Cur))
    /\ Returned("OpenWindowsForCurrentStep", "", << >>)
    /\ KeepSnapshot
    /\ UNCHANGED selectedGroups

\* ------------------------------------------------------------- environment
\* The step the user may move on to from the current one, by editor mode.
NextSteps(flags, step) ==
    IF flags = SCREEN_FLAGS_SCENARIO_EDITOR
    THEN IF step = "ObjectSelection" THEN {"InventionsListSetUp", "LandscapeEditor"}
         ELSE IF step = "LandscapeEditor" THEN {"InventionsListSetUp"}
         ELSE IF step = "InventionsListSetUp" THEN {"OptionsSelection"}
         ELSE IF step = "OptionsSelection" THEN {"ObjectiveSelection"}
         ELSE IF step = "ObjectiveSelection" THEN {"SaveScenario"}
         ELSE {}
    ELSE IF flags = SCREEN_FLAGS_TRACK_DESIGNER /\ step = "ObjectSelection"
    THEN {"RollercoasterDesigner"}
    ELSE IF flags = SCREEN_FLAGS_TRACK_MANAGER /\ step = "ObjectSelection"
    THEN {"DesignsManager"}
    ELSE {}

\* The windows that belong to one editor step; moving on closes them.
StepWindows == {"EditorObjectSelection", "InstallTrack", "EditorInventionList",
                "EditorScenarioOptions", "EditorObjectiveOptions"}

AdvanceStep ==
    /\ \E next \in NextSteps(gScreenFlags, EditorStep) :
           Commit([Cur EXCEPT !.EditorStep = next, !.windows = @ \ StepWindows])
    /\ Returned("AdvanceStep", "", << >>)
    /\ KeepSnapshot
    /\ UNCHANGED selectedGroups

\* Leaving the editor for the title screen clears the editor screen flags.
ExitToTitle ==
    /\ TestFlags(gScreenFlags, SCREEN_FLAGS_EDITOR)
    /\ Commit([WindowCloseAll(Cur) EXCEPT !.gScreenFlags = SCREEN_FLAGS_TITLE_DEMO])
    /\ Returned("ExitToTitle", "", << >>)
    /\ KeepSnapshot
    /\ UNCHANGED selectedGroups

\* The track manager shows the window that installs a track design.
OpenInstallTrack ==
    /\ gScreenFlags = SCREEN_FLAGS_TRACK_MANAGER
    /\ "InstallTrack" \notin windows
    /\ Commit(ContextOpenWindow(Cur, "InstallTrack"))
    /\ Returned("OpenInstallTrack", "", << >>)
    /\ KeepSnapshot
    /\ UNCHANGED selectedGroups

\* -------------------------------------------------- object-group validator
ObjectGroups == {"NonQueueSurface", "QueueSurface", "FootpathRailings", "Ride", "Station",
                 "TerrainSurface", "TerrainEdge", "ParkEntrance", "Water"}

EditorCheckObjectGroupAtLeastOneSurfaceSelected(selected, queue) ==
    (IF queue THEN "QueueSurface" ELSE "NonQueueSurface") \in selected

EditorCheckObjectGroupAtLeastOneSelected(selected, objectType) == objectType \in selected

\* Faulty variant: only the track-designer bit is tested.
IsTrackDesignerOnly(flags) == TestFlags(flags, SCREEN_FLAGS_TRACK_DESIGNER)

IsTrackDesignerManager(flags) ==
    TestFlags(flags, SCREEN_FLAGS_TRACK_DESIGNER + SCREEN_FLAGS_TRACK_MANAGER)

\* Faulty variant: the station rule is evaluated before the ride rule.
CheckObjectSelectionStationFirst(flags, selected) ==
    LET isTrackDesignerManager == IsTrackDesignerManager(flags)
    IN  IF ~isTrackDesignerManager
           /\ ~EditorCheckObjectGroupAtLeastOneSurfaceSelected(selected, FALSE)
        THEN <<"FootpathSurface",
               "STR_AT_LEAST_ONE_FOOTPATH_NON_QUEUE_SURFACE_OBJECT_MUST_BE_SELECTED">>
        ELSE IF ~isTrackDesignerManager
                /\ ~EditorCheckObjectGroupAtLeastOneSurfaceSelected(selected, TRUE)
        THEN <<"FootpathSurface",
               "STR_AT_LEAST_ONE_FOOTPATH_QUEUE_SURFACE_OBJECT_MUST_BE_SELECTED">>
        ELSE IF ~isTrackDesignerManager
                /\ ~EditorCheckObjectGroupAtLeastOneSelected(selected, "FootpathRailings")
        THEN <<"FootpathRailings",
               "STR_AT_LEAST_ONE_FOOTPATH_RAILING_OBJECT_MUST_BE_SELECTED">>
        ELSE IF ~EditorCheckObjectGroupAtLeastOneSelected(selected, "Station")
        THEN <<"Station", "STR_AT_LEAST_ONE_STATION_OBJECT_MUST_BE_SELECTED">>
        ELSE IF ~EditorCheckObjectGroupAtLeastOneSelected(selected, "Ride")
        THEN <<"Ride", "STR_AT_LEAST_ONE_RIDE_OBJECT_MUST_BE_SELECTED">>
        ELSE IF ~EditorCheckObjectGroupAtLeastOneSelected(selected, "TerrainSurface")
        THEN <<"TerrainSurface", "STR_AT_LEAST_ONE_TERRAIN_SURFACE_OBJECT_MUST_BE_SELECTED">>
        ELSE IF ~EditorCheckObjectGroupAtLeastOneSelected(selected, "TerrainEdge")
        THEN <<"TerrainEdge", "STR_AT_LEAST_ONE_TERRAIN_EDGE_OBJECT_MUST_BE_SELECTED">>
        ELSE IF ~isTrackDesignerManager
                /\ ~EditorCheckObjectGroupAtLeastOneSelected(selected, "ParkEntrance")
        THEN <<"ParkEntrance", "STR_PARK_ENTRANCE_TYPE_MUST_BE_SELECTED">>
        ELSE IF ~isTrackDesignerManager
                /\ ~EditorCheckObjectGroupAtLeastOneSelected(selected, "Water")
        THEN <<"Water", "STR_WATER_TYPE_MUST_BE_SELECTED">>
        ELSE <<"None", "STR_NONE">>

CheckObjectSelectionOf(flags, selected) ==
    LET isTrackDesignerManager == IsTrackDesignerManager(flags)
    IN  IF ~isTrackDesignerManager
           /\ ~EditorCheckObjectGroupAtLeastOneSurfaceSelected(selected, FALSE)
        THEN <<"FootpathSurface",
               "STR_AT_LEAST_ONE_FOOTPATH_NON_QUEUE_SURFACE_OBJECT_MUST_BE_SELECTED">>
        ELSE IF ~isTrackDesignerManager
                /\ ~EditorCheckObjectGroupAtLeastOneSurfaceSelected(selected, TRUE)
        THEN <<"FootpathSurface",
               "STR_AT_LEAST_ONE_FOOTPATH_QUEUE_SURFACE_OBJECT_MUST_BE_SELECTED">>
        ELSE IF ~isTrackDesignerManager
                /\ ~EditorCheckObjectGroupAtLeastOneSelected(selected, "FootpathRailings")
        THEN <<"FootpathRailings",
               "STR_AT_LEAST_ONE_FOOTPATH_RAILING_OBJECT_MUST_BE_SELECTED">>
        ELSE IF ~EditorCheckObjectGroupAtLeastOneSelected(selected, "Ride")
        THEN <<"Ride", "STR_AT_LEAST_ONE_RIDE_OBJECT_MUST_BE_SELECTED">>
        ELSE IF ~EditorCheckObjectGroupAtLeastOneSelected(selected, "Station")
        THEN <<"Station", "STR_AT_LEAST_ONE_STATION_OBJECT_MUST_BE_SELECTED">>
        ELSE IF ~EditorCheckObjectGroupAtLeastOneSelected(selected, "TerrainSurface")
        THEN <<"TerrainSurface", "STR_AT_LEAST_ONE_TERRAIN_SURFACE_OBJECT_MUST_BE_SELECTED">>
        ELSE IF ~EditorCheckObjectGroupAtLeastOneSelected(selected, "TerrainEdge")
        THEN <<"TerrainEdge", "STR_AT_LEAST_ONE_TERRAIN_EDGE_OBJECT_MUST_BE_SELECTED">>
        ELSE IF ~isTrackDesignerManager
                /\ ~EditorCheckObjectGroupAtLeastOneSelected(selected, "ParkEntrance")
        THEN <<"ParkEntrance", "STR_PARK_ENTRANCE_TYPE_MUST_BE_SELECTED">>
        ELSE IF ~isTrackDesignerManager
                /\ ~EditorCheckObjectGroupAtLeastOneSelected(selected, "Water")
        THEN <<"Water", "STR_WATER_TYPE_MUST_BE_SELECTED">>
        ELSE <<"None", "STR_NONE">>

CheckObjectSelection ==
    /\ Returned("CheckObjectSelection", "", CheckObjectSelectionOf(gScreenFlags, selectedGroups))
    /\ trace' = << >>
    /\ UNCHANGED <<gScreenFlags, EditorStep, ScenarioCategory, gameState, windows, objects,
                   selectedGroups, editorSelectedObjectFlags, convertPre>>

\* ---------------------------------------------------------- park validator
DirectionReverse(dir) == (dir + 2) % 4

\* CoordsDirectionDelta, in tiles.
DirectionDelta(dir) ==
    IF dir = 0 THEN <<-1, 0>> ELSE IF dir = 1 THEN <<0, 1>>
    ELSE IF dir = 2 THEN <<1, 0>> ELSE <<0, -1>>

\* The tiles a footpath that leaves loc in direction dir crosses on its way to
\* the map edge.
Route(loc, dir) ==
    {t \in Tiles : \E k \in 1 .. MapSizeN :
        t = <<loc[1] + k * DirectionDelta(dir)[1], loc[2] + k * DirectionDelta(dir)[2]>>}

\* Flag of FootpathIsConnectedToMapEdge that unowns the tiles of the route.
FOOTPATH_CONNECTED_MAP_EDGE_UNOWN == 32

\* The footpath search from an entrance: the state of the footpath that leaves
\* the entrance in that direction, or not found when there is none.
FootpathSearch(w, entrance, direction) ==
    IF direction = PathDirection(entrance.loc)
    THEN w.Footpaths[entrance.loc] ELSE "FOOTPATH_SEARCH_NOT_FOUND"

FootpathIsConnectedToMapEdge(s, entrance, direction, flags) ==
    LET res == FootpathSearch(s.gameState, entrance, direction)
        s1 == Call(s, "FootpathIsConnectedToMapEdge", ToString(<<entrance.loc, direction, flags>>))
    IN  [res |-> res,
         s |-> IF res = "FOOTPATH_SEARCH_SUCCESS" /\ flags = FOOTPATH_CONNECTED_MAP_EDGE_UNOWN
               THEN [s1 EXCEPT !.gameState.owned = @ \ Route(entrance.loc, direction)]
               ELSE s1]

\* Park::UpdateSize: counts the owned tiles and stores the count.
UpdateSize(s) == [Call(s, "Park::UpdateSize", "") EXCEPT
                     !.gameState.ParkSize = Cardinality(s.gameState.owned)]

\* Faulty variant: the search that unowns the route is not made.
RECURSIVE CheckEntrancesWithoutUnown(_, _)
CheckEntrancesWithoutUnown(s, i) ==
    IF i > Len(s.gameState.Entrances)
    THEN [s |-> s, ok |-> TRUE, msg |-> "STR_NONE"]
    ELSE LET parkEntrance == s.gameState.Entrances[i]
             direction == DirectionReverse(parkEntrance.direction)
             r == FootpathIsConnectedToMapEdge(s, parkEntrance, direction, 0)
         IN  IF r.res = "FOOTPATH_SEARCH_NOT_FOUND"
             THEN [s |-> r.s, ok |-> FALSE,
                   msg |-> "STR_PARK_ENTRANCE_WRONG_DIRECTION_OR_NO_PATH"]
             ELSE IF r.res \in {"FOOTPATH_SEARCH_INCOMPLETE", "FOOTPATH_SEARCH_TOO_COMPLEX"}
             THEN [s |-> r.s, ok |-> FALSE,
                   msg |-> "STR_PARK_ENTRANCE_PATH_INCOMPLETE_OR_COMPLEX"]
             ELSE CheckEntrancesWithoutUnown(r.s, i + 1)

\* The loop of CheckPark over the entrances from the i-th on.
RECURSIVE CheckEntrances(_, _)
CheckEntrances(s, i) ==
    IF i > Len(s.gameState.Entrances)
    THEN [s |-> s, ok |-> TRUE, msg |-> "STR_NONE"]
    ELSE LET parkEntrance == s.gameState.Entrances[i]
             direction == DirectionReverse(parkEntrance.direction)
             r == FootpathIsConnectedToMapEdge(s, parkEntrance, direction, 0)
         IN  IF r.res = "FOOTPATH_SEARCH_NOT_FOUND"
             THEN [s |-> r.s, ok |-> FALSE,
                   msg |-> "STR_PARK_ENTRANCE_WRONG_DIRECTION_OR_NO_PATH"]
             ELSE IF r.res \in {"FOOTPATH_SEARCH_INCOMPLETE", "FOOTPATH_SEARCH_TOO_COMPLEX"}
             THEN [s |-> r.s, ok |-> FALSE,
                   msg |-> "STR_PARK_ENTRANCE_PATH_INCOMPLETE_OR_COMPLEX"]
             ELSE CheckEntrances(
                      FootpathIsConnectedToMapEdge(r.s, parkEntrance, direction,
                                                   FOOTPATH_CONNECTED_MAP_EDGE_UNOWN).s,
                      i + 1)

\* Faulty variant: the peep-spawn list is not looked at.
CheckParkIgnoringSpawns(s) ==
    LET s1 == UpdateSize(s)
        parkSize == s1.gameState.ParkSize
    IN  IF parkSize = 0
        THEN [s |-> s1, ok |-> FALSE, msg |-> "STR_PARK_MUST_OWN_SOME_LAND"]
        ELSE IF Len(s1.gameState.Entrances) = 0
        THEN [s |-> s1, ok |-> FALSE, msg |-> "STR_NO_PARK_ENTRANCES"]
        ELSE CheckEntrances(s1, 1)

CheckParkOf(s) ==
    LET s1 == UpdateSize(s)
        parkSize == s1.gameState.ParkSize
    IN  IF parkSize = 0
        THEN [s |-> s1, ok |-> FALSE, msg |-> "STR_PARK_MUST_OWN_SOME_LAND"]
        ELSE IF Len(s1.gameState.Entrances) = 0
        THEN [s |-> s1, ok |-> FALSE, msg |-> "STR_NO_PARK_ENTRANCES"]
        ELSE LET r == CheckEntrances(s1, 1)
             IN  IF ~r.ok THEN r
                 ELSE IF r.s.gameState.PeepSpawns = 0
                 THEN [s |-> r.s, ok |-> FALSE, msg |-> "STR_PEEP_SPAWNS_NOT_SET"]
                 ELSE [s |-> r.s, ok |-> TRUE, msg |-> "STR_NONE"]

CheckPark ==
    /\ LET r == CheckParkOf(Cur)
       IN  /\ Commit(r.s)
           /\ Returned("CheckPark", "", <<r.ok, r.msg>>)
    /\ UNCHANGED <<selectedGroups, convertPre>>

\* The cleanup applied on its own to a loaded world.
ClearMap(fromSave) ==
    /\ Commit(ClearMapForEditing(Cur, fromSave))
    /\ Returned("ClearMapForEditing", IF fromSave THEN "fromSave" ELSE "notFromSave", << >>)
    /\ UNCHANGED <<selectedGroups, convertPre>>

\* --------------------------------------------------------------- flag table
\* Highest entry index drawn for the flag table.
MaxIndex == 1

OBJECT_ENTRY_INDEX_NULL == 65535

\* The object types drawn for the flag table.
ObjectTypes == {"Ride", "Water"}

\* The bits of a flags argument: the eight of a stored byte and one above them.
WordBits == {1, 2, 4, 8, 16, 32, 64, 128, 256}

BitsOf(n) == {b \in WordBits : (n \div b) % 2 = 1}

RECURSIVE FromBits(_)
FromBits(S) == IF S = {} THEN 0 ELSE LET b == CHOOSE x \in S : TRUE IN b + FromBits(S \ {b})

\* a | b
BitOr(a, b) == FromBits(BitsOf(a) \cup BitsOf(b))

\* a & ~b
BitAndNot(a, b) == FromBits(BitsOf(a) \ BitsOf(b))

\* The conversion to uint8_t of the value assigned to an element.
ToByte(n) == n % 256

EmptyFlagTable == [objectType \in ObjectTypes |-> << >>]

\* std::vector::resize: the first n elements, new ones value-initialised.
Resize(list, n) == [j \in 1 .. n |-> IF j <= Len(list) THEN list[j] ELSE 0]

\* Faulty variant: the list is grown to hold the index that is read.
GetSelectedObjectFlagsGrowing(s, objectType, index) ==
    LET list == s.editorSelectedObjectFlags[objectType]
        grown == IF Len(list) <= index /\ index # OBJECT_ENTRY_INDEX_NULL
                 THEN Resize(list, index + 1) ELSE list
    IN  [s |-> [s EXCEPT !.editorSelectedObjectFlags[objectType] = grown],
         result |-> IF Len(list) > index THEN list[index + 1] ELSE 0]

GetSelectedObjectFlagsOf(s, objectType, index) ==
    LET list == s.editorSelectedObjectFlags[objectType]
    IN  [s |-> s, result |-> IF Len(list) > index THEN list[index + 1] ELSE 0]

ClearSelectedObjectOf(s, objectType, index, flags) ==
    LET list == s.editorSelectedObjectFlags[objectType]
        grown == IF Len(list) <= index THEN Resize(list, index + 1) ELSE list
    IN  [s EXCEPT !.editorSelectedObjectFlags[objectType] =
                      [grown EXCEPT ![index + 1] = ToByte(BitAndNot(@, flags))]]

\* Faulty variant: the flags are assigned to the element, not or-ed into it.
SetSelectedObjectAssigning(s, objectType, index, flags) ==
    IF index # OBJECT_ENTRY_INDEX_NULL
    THEN LET list == s.editorSelectedObjectFlags[objectType]
             grown == IF Len(list) <= index THEN Resize(list, index + 1) ELSE list
         IN  [s EXCEPT !.editorSelectedObjectFlags[objectType] =
                           [grown EXCEPT ![index + 1] = ToByte(flags)]]
    ELSE s

\* Faulty variant: the list is resized whether or not it already holds the index.
SetSelectedObjectAlwaysResizing(s, objectType, index, flags) ==
    IF index # OBJECT_ENTRY_INDEX_NULL
    THEN LET list == s.editorSelectedObjectFlags[objectType]
             grown == Resize(list, index + 1)
         IN  [s EXCEPT !.editorSelectedObjectFlags[objectType] =
                           [grown EXCEPT ![index + 1] = ToByte(BitOr(@, flags))]]
    ELSE s

SetSelectedObjectOf(s, objectType, index, flags) ==
    IF index # OBJECT_ENTRY_INDEX_NULL
    THEN LET list == s.editorSelectedObjectFlags[objectType]
             grown == IF Len(list) <= index THEN Resize(list, index + 1) ELSE list
         IN  [s EXCEPT !.editorSelectedObjectFlags[objectType] =
                           [grown EXCEPT ![index + 1] = ToByte(BitOr(@, flags))]]
    ELSE s

\* The element a call addresses, as GetSelectedObjectFlags reads it.
Slot(objectType, index) == GetSelectedObjectFlagsOf(Cur, objectType, index).result

GetSelectedObjectFlags(objectType, index) ==
    /\ LET r == GetSelectedObjectFlagsOf(Cur, objectType, index)
       IN  /\ Commit(r.s)
           /\ ReturnedOf("GetSelectedObjectFlags", ToString(<<objectType, index>>), "",
                         <<objectType, index>>, <<r.result>>)
    /\ UNCHANGED <<selectedGroups, convertPre>>

\* A set is recorded with the element it found.
SetSelectedObject(objectType, index, flags) ==
    /\ Commit(SetSelectedObjectOf(Cur, objectType, index, flags))
    /\ ReturnedOf("SetSelectedObject", ToString(<<objectType, index, flags>>), "",
                  <<objectType, index, flags, Slot(objectType, index)>>, << >>)
    /\ UNCHANGED <<selectedGroups, convertPre>>

\* A clear is recorded with the element it found and, when it follows a set
\* of the same flags on the same element, the element that set had found.
ClearSelectedObject(objectType, index, flags) ==
    /\ Commit(ClearSelectedObjectOf(Cur, objectType, index, flags))
    /\ ReturnedOf("ClearSelectedObject", ToString(<<objectType, index, flags>>), "",
                  <<objectType, index, flags, Slot(objectType, index)>>
                      \o (IF /\ lastOp.op = "SetSelectedObject"
                             /\ SubSeq(lastOp.before, 1, 3) = <<objectType, index, flags>>
                          THEN <<lastOp.before[4]>> ELSE << >>),
                  << >>)
    /\ UNCHANGED <<selectedGroups, convertPre>>

\* ------------------------------------------------------------ specification
\* What the picker may deliver: a cancellation, or a saved game that then
\* loads or fails to load.
CallbackInputs ==
    {<<MODAL_RESULT_CANCEL, [ext |-> ".sv6", content |-> "saved"], FALSE>>}
        \cup ({MODAL_RESULT_OK} \X {p \in Paths : p.ext \in {".sv6", ".park"}} \X BOOLEAN)

\* The ways a load of the path may end: an unknown extension is never read,
\* a legacy file loads or fails as a whole.
OutcomesOf(path) ==
    IF GetFileExtensionType(path) = "Unknown" THEN {"ok"}
    ELSE IF GetFileExtensionType(path) = "PARK" THEN ImportOutcomes
    ELSE {"ok", "Load"}

Init ==
    /\ gScreenFlags = SCREEN_FLAGS_TITLE_DEMO
    /\ EditorStep = "Invalid"
    /\ ScenarioCategory = "SCENARIO_CATEGORY_BEGINNER"
    /\ gameState = FreshWorld(MapSizeN)
    /\ windows = {}
    /\ objects = {}
    /\ selectedGroups = {}
    /\ editorSelectedObjectFlags = EmptyFlagTable
    /\ trace = << >>
    /\ lastOp = NoOp
    /\ convertPre = << >>

Next ==
    \/ Load
    \/ ConvertSaveToScenario
    \/ \E in \in CallbackInputs : ConvertSaveToScenarioCallback(in[1], in[2], in[3])
    \/ LoadTrackDesigner
    \/ LoadTrackManager
    \/ \E path \in Paths : \E outcome \in OutcomesOf(path) : LoadLandscape(path, outcome)
    \/ OpenWindowsForCurrentStep
    \/ AdvanceStep
    \/ ExitToTitle

Spec == Init /\ [][Next]_vars

\* The object-group validator on every mode and every selection.
InitSelection ==
    /\ gScreenFlags \in {SCREEN_FLAGS_PLAYING, SCREEN_FLAGS_TITLE_DEMO,
                         SCREEN_FLAGS_SCENARIO_EDITOR, SCREEN_FLAGS_TRACK_DESIGNER,
                         SCREEN_FLAGS_TRACK_MANAGER}
    /\ selectedGroups \in SUBSET ObjectGroups
    /\ editorSelectedObjectFlags = EmptyFlagTable
    /\ EditorStep = "ObjectSelection"
    /\ ScenarioCategory = "SCENARIO_CATEGORY_OTHER"
    /\ gameState = FreshWorld(MapSizeN)
    /\ windows = {}
    /\ objects = {}
    /\ trace = << >>
    /\ lastOp = NoOp
    /\ convertPre = << >>

NextSelection == CheckObjectSelection

SpecSelection == InitSelection /\ [][NextSelection]_vars

\* The park validator on small parks: some land, up to MaxEntrances entrances
\* on distinct tiles, a footpath in some state at each of them.
EntranceLists ==
    {e \in UNION {[1 .. n -> [loc : EntranceLocs, direction : 0 .. 3]] : n \in 0 .. MaxEntrances} :
        \A i, j \in 1 .. Len(e) : i # j => e[i].loc # e[j].loc}

OwnedLands == {{}, {<<2, 2>>}, {<<3, 4>>, <<4, 4>>}}

InitPark ==
    /\ gScreenFlags = SCREEN_FLAGS_SCENARIO_EDITOR
    /\ EditorStep = "ObjectiveSelection"
    /\ ScenarioCategory = "SCENARIO_CATEGORY_OTHER"
    /\ \E owned \in OwnedLands, entrances \in EntranceLists,
          paths \in [EntranceLocs -> FootpathSearchResults], spawns \in 0 .. 1 :
           gameState = [FreshWorld(MapSizeN) EXCEPT !.owned = owned,
                                                   !.Entrances = entrances,
                                                   !.Footpaths = paths,
                                                   !.PeepSpawns = spawns]
    /\ windows = {}
    /\ objects = {}
    /\ selectedGroups = {}
    /\ editorSelectedObjectFlags = EmptyFlagTable
    /\ trace = << >>
    /\ lastOp = NoOp
    /\ convertPre = << >>

NextPark == CheckPark

SpecPark == InitPark /\ [][NextPark]_vars

\* The cleanup on imported worlds whose finances lie inside, on and outside
\* the ranges the cleanup clamps to.
InitCleanup ==
    /\ gScreenFlags = SCREEN_FLAGS_SCENARIO_EDITOR
    /\ EditorStep = "LandscapeEditor"
    /\ ScenarioCategory = "SCENARIO_CATEGORY_OTHER"
    /\ \E guestCash \in {0, GBP(10) - 1, GBP(10), GBP(50), MAX_ENTRANCE_FEE, MAX_ENTRANCE_FEE + 1},
          cash \in {0 - GBP(100), 0, 100000, 100001, GBP(25000)},
          loan \in {0 - 1, 0, GBP(5000000), GBP(5000000) + 1},
          maxLoan \in {0 - 1, GBP(20000), GBP(5000000), GBP(5000000) + 1},
          rate \in {0, 4, 5, 80, 255},
          fee \in {0, GBP(20)},
          guests \in {0, 7},
          rides \in {0, 3} :
           gameState = [SavedPark EXCEPT !.GuestInitialCash = guestCash,
                                         !.InitialCash = cash,
                                         !.BankLoan = loan,
                                         !.MaxBankLoan = maxLoan,
                                         !.BankLoanInterestRate = rate,
                                         !.EntranceFee = fee,
                                         !.NumGuestsInPark = guests,
                                         !.Rides = rides]
    /\ windows = {}
    /\ objects = {"RequiredObjects"}
    /\ selectedGroups = {}
    /\ editorSelectedObjectFlags = EmptyFlagTable
    /\ trace = << >>
    /\ lastOp = NoOp
    /\ convertPre = << >>

NextCleanup == \E fromSave \in BOOLEAN : ClearMap(fromSave)

SpecCleanup == InitCleanup /\ [][NextCleanup]_vars

\* The flag table under reads, sets and clears of entries of every object
\* type drawn, the null index among the indices read and set. The flags
\* drawn for rides are one bit, the other seven and one that does not fit a
\* byte; for the other types, the whole byte.
FlagMasks(objectType) == IF objectType = "Ride" THEN {1, 254, 257} ELSE {255}

Indexes == 0 .. MaxIndex

NextFlags ==
    \/ \E objectType \in ObjectTypes, index \in Indexes \cup {MaxIndex + 1, OBJECT_ENTRY_INDEX_NULL} :
           GetSelectedObjectFlags(objectType, index)
    \/ \E objectType \in ObjectTypes, index \in Indexes \cup {OBJECT_ENTRY_INDEX_NULL} :
           \E flags \in FlagMasks(objectType) : SetSelectedObject(objectType, index, flags)
    \/ \E objectType \in ObjectTypes, index \in Indexes :
           \E flags \in FlagMasks(objectType) : ClearSelectedObject(objectType, index, flags)

SpecFlags == Init /\ [][NextFlags]_vars

\* The entry points of the editor after sets and clears of every flag of some
\* entries of the flag table.
NextSessionFlags ==
    \/ \E objectType \in ObjectTypes, index \in Indexes : SetSelectedObject(objectType, index, 255)
    \/ \E objectType \in ObjectTypes, index \in Indexes : ClearSelectedObject(objectType, index, 255)
    \/ Load
    \/ LoadTrackDesigner
    \/ LoadTrackManager

SpecSessionFlags == Init /\ [][NextSessionFlags]_vars

\* The windows of the editor steps: the editor is entered in each mode, moved
\* from step to step and left, with the step windows opened on the way.
NextWindows ==
    \/ Load
    \/ LoadTrackDesigner
    \/ LoadTrackManager
    \/ OpenWindowsForCurrentStep
    \/ OpenInstallTrack
    \/ AdvanceStep
    \/ ExitToTitle

SpecWindows == Init /\ [][NextWindows]_vars

\* ================================================================== claims
\* The rules of the object-group validator in the order the specification
\* gives them: the group that must hold a selected entry, the kind and the
\* message reported when it holds none.
Rules ==
    << [group |-> "NonQueueSurface", kind |-> "FootpathSurface",
        msg |-> "STR_AT_LEAST_ONE_FOOTPATH_NON_QUEUE_SURFACE_OBJECT_MUST_BE_SELECTED"],
       [group |-> "QueueSurface", kind |-> "FootpathSurface",
        msg |-> "STR_AT_LEAST_ONE_FOOTPATH_QUEUE_SURFACE_OBJECT_MUST_BE_SELECTED"],
       [group |-> "FootpathRailings", kind |-> "FootpathRailings",
        msg |-> "STR_AT_LEAST_ONE_FOOTPATH_RAILING_OBJECT_MUST_BE_SELECTED"],
       [group |-> "Ride", kind |-> "Ride",
        msg |-> "STR_AT_LEAST_ONE_RIDE_OBJECT_MUST_BE_SELECTED"],
       [group |-> "Station", kind |-> "Station",
        msg |-> "STR_AT_LEAST_ONE_STATION_OBJECT_MUST_BE_SELECTED"],
       [group |-> "TerrainSurface", kind |-> "TerrainSurface",
        msg |-> "STR_AT_LEAST_ONE_TERRAIN_SURFACE_OBJECT_MUST_BE_SELECTED"],
       [group |-> "TerrainEdge", kind |-> "TerrainEdge",
        msg |-> "STR_AT_LEAST_ONE_TERRAIN_EDGE_OBJECT_MUST_BE_SELECTED"],
       [group |-> "ParkEntrance", kind |-> "ParkEntrance",
        msg |-> "STR_PARK_ENTRANCE_TYPE_MUST_BE_SELECTED"],
       [group |-> "Water", kind |-> "Water",
        msg |-> "STR_WATER_TYPE_MUST_BE_SELECTED"] >>

FailingRules == {i \in 1 .. Len(Rules) : Rules[i].group \notin selectedGroups}

TrackMode == TestFlags(gScreenFlags, SCREEN_FLAGS_TRACK_DESIGNER + SCREEN_FLAGS_TRACK_MANAGER)

\* C1: outside the track designer and the track manager, CheckObjectSelection
\* returns the kind and message of the earliest rule, in the order non-queue
\* surface, queue surface, railings, ride, station, terrain surface, terrain
\* edge, park entrance, water, whose group has no selected entry, and returns
\* (None, STR_NONE) exactly when no rule fails.
C1_FirstFailingRuleWins ==
    (lastOp.op = "CheckObjectSelection" /\ ~TrackMode) =>
        /\ FailingRules = {} <=> lastOp.ret = <<"None", "STR_NONE">>
        /\ FailingRules # {} =>
               LET first == CHOOSE i \in FailingRules : \A j \in FailingRules : i <= j
               IN  lastOp.ret = <<Rules[first].kind, Rules[first].msg>>

\* Two rules fail, ride and water, and the earlier one has been reported.
C1_Witness ==
    /\ lastOp.op = "CheckObjectSelection"
    /\ gScreenFlags = SCREEN_FLAGS_SCENARIO_EDITOR
    /\ selectedGroups = ObjectGroups \ {"Ride", "Station", "Water"}
    /\ lastOp.ret[1] = "Ride"

\* C2: in the track designer and the track manager the footpath-surface,
\* footpath-railings, park-entrance and water rules are not applied: the result
\* is never one of these kinds, and it is (None, STR_NONE) as soon as a ride, a
\* station, a terrain surface and a terrain edge are selected.
C2_TrackModesSkipScenarioRules ==
    (lastOp.op = "CheckObjectSelection" /\ TrackMode) =>
        /\ lastOp.ret[1] \notin {"FootpathSurface", "FootpathRailings", "ParkEntrance", "Water"}
        /\ {"Ride", "Station", "TerrainSurface", "TerrainEdge"} \subseteq selectedGroups
               => lastOp.ret = <<"None", "STR_NONE">>

\* The track manager passes a selection that holds no footpath, entrance or water.
C2_Witness ==
    /\ lastOp.op = "CheckObjectSelection"
    /\ gScreenFlags = SCREEN_FLAGS_TRACK_MANAGER
    /\ selectedGroups = {"Ride", "Station", "TerrainSurface", "TerrainEdge"}
    /\ lastOp.ret = <<"None", "STR_NONE">>

\* What CheckPark asks of the world it is called on.
ParkIsValid(w) ==
    /\ Cardinality(w.owned) # 0
    /\ Len(w.Entrances) # 0
    /\ \A i \in 1 .. Len(w.Entrances) :
           FootpathSearch(w, w.Entrances[i], DirectionReverse(w.Entrances[i].direction))
               = "FOOTPATH_SEARCH_SUCCESS"
    /\ w.PeepSpawns # 0

\* C3: CheckPark returns ok = true if and only if, in the world it is called
\* on, the owned-land size is non-zero, the entrance list is non-empty, the
\* footpath search from every entrance in the reverse of its facing direction
\* returns Success, and the peep-spawn list is non-empty.
C3_CheckParkOkIffValid ==
    [][lastOp'.op = "CheckPark" => (lastOp'.ret[1] <=> ParkIsValid(gameState))]_vars

\* CheckPark has accepted a park with two entrances.
C3_Witness ==
    /\ lastOp.op = "CheckPark"
    /\ lastOp.ret = <<TRUE, "STR_NONE">>
    /\ Len(gameState.Entrances) = 2

InRange(v, lo, hi) == lo <= v /\ v <= hi

\* C4: after the cleanup has run with fromSave = true, guest initial cash lies
\* in [10.00, MAX_ENTRANCE_FEE], initial cash is at most 100000, bank loan and
\* max bank loan lie in [0, 5,000,000.00], the interest rate lies in
\* [5, MaxBankLoanInterestRate], no guest is counted in the park and no ride
\* is left.
C4_CleanupRanges ==
    (lastOp.op = "ClearMapForEditing" /\ lastOp.arg = "fromSave") =>
        /\ InRange(gameState.GuestInitialCash, GBP(10), MAX_ENTRANCE_FEE)
        /\ gameState.InitialCash <= 100000
        /\ InRange(gameState.BankLoan, 0, GBP(5000000))
        /\ InRange(gameState.MaxBankLoan, 0, GBP(5000000))
        /\ InRange(gameState.BankLoanInterestRate, 5, MaxBankLoanInterestRate)
        /\ gameState.NumGuestsInPark = 0
        /\ gameState.Rides = 0

\* The cleanup has run with fromSave = true and brought values down to the
\* upper limits.
C4_Witness ==
    /\ lastOp.op = "ClearMapForEditing"
    /\ lastOp.arg = "fromSave"
    /\ gameState.GuestInitialCash = MAX_ENTRANCE_FEE
    /\ gameState.InitialCash = 100000
    /\ gameState.BankLoan = GBP(5000000)
    /\ gameState.BankLoanInterestRate = 5

Called(tr, what) == \E i \in 1 .. Len(tr) : tr[i][1] = what

CalledWith(tr, what, arg) == \E i \in 1 .. Len(tr) : tr[i] = <<what, arg>>

ExtensionOfLastOp == ToLower(lastOp.arg)

\* C5: when LoadLandscape has loaded a file, the cleanup has run with
\* fromSave = true for a save extension (.sv4, .sv6) and for a native .park
\* file, and with fromSave = false for a scenario extension (.sc4, .sc6).
C5_FromSaveFollowsExtension ==
    (lastOp.op = "LoadLandscape" /\ lastOp.ret = <<TRUE>>) =>
        /\ ExtensionOfLastOp \in {".sv4", ".sv6", ".park"}
               => CalledWith(trace, "ClearMapForEditing", "fromSave")
        /\ ExtensionOfLastOp \in {".sc4", ".sc6"}
               => CalledWith(trace, "ClearMapForEditing", "notFromSave")

\* C6: LoadLandscape returns false for an unknown extension, for a legacy file
\* whose load fails and for a native file whose importer fails; whenever it
\* returns false the editor step, the screen flags, the category and the world
\* are what they were before the call and the cleanup has not run.
C6_FailedLoadChangesNothing ==
    [][lastOp'.op = "LoadLandscape" =>
          /\ (\/ GetFileExtensionType([ext |-> lastOp'.arg, content |-> "saved"]) = "Unknown"
              \/ lastOp'.outcome # "ok") => lastOp'.ret = <<FALSE>>
          /\ lastOp'.ret = <<FALSE>> =>
                 /\ EditorStep' = EditorStep
                 /\ gScreenFlags' = gScreenFlags
                 /\ ScenarioCategory' = ScenarioCategory
                 /\ gameState' = gameState
                 /\ ~Called(trace', "ClearMapForEditing")]_vars

\* A legacy save failed to load while the track designer was active: the load
\* returned false and the track designer is still there.
C6_Witness ==
    /\ lastOp.op = "LoadLandscape"
    /\ lastOp.arg = ".sv6"
    /\ lastOp.outcome = "Load"
    /\ lastOp.ret = <<FALSE>>
    /\ gScreenFlags = SCREEN_FLAGS_TRACK_DESIGNER
    /\ EditorStep = "RollercoasterDesigner"

\* C7: the three editor entries end with step ObjectSelection, a conversion
\* whose picker returned OK and whose load succeeded ends with
\* ObjectiveSelection, a successful LoadLandscape ends with LandscapeEditor,
\* and an entry point that does none of these leaves the step as it was.
C7_StepAfterEntryPoint ==
    [][/\ lastOp'.op \in {"Load", "LoadTrackDesigner", "LoadTrackManager"}
              => EditorStep' = "ObjectSelection"
       /\ (lastOp'.op = "ConvertSaveToScenarioCallback" /\ lastOp'.ret = <<TRUE>>)
              => EditorStep' = "ObjectiveSelection"
       /\ (lastOp'.op = "LoadLandscape" /\ lastOp'.ret = <<TRUE>>)
              => EditorStep' = "LandscapeEditor"
       /\ (\/ lastOp'.op \in {"ConvertSaveToScenario", "OpenWindowsForCurrentStep"}
           \/ /\ lastOp'.op \in {"ConvertSaveToScenarioCallback", "LoadLandscape"}
              /\ lastOp'.ret = <<FALSE>>)
              => EditorStep' = EditorStep]_vars

\* A scenario file, whose own step is SaveScenario, has been loaded as a
\* landscape and the step is LandscapeEditor.
C7_Witness ==
    /\ lastOp.op = "LoadLandscape"
    /\ lastOp.ret = <<TRUE>>
    /\ gameState.ScenarioName = "Scenario"
    /\ EditorStep = "LandscapeEditor"

FailedCallback == lastOp.op = "ConvertSaveToScenarioCallback" /\ lastOp.ret = <<FALSE>>

\* C8 as stated: after a callback that received a non-OK result, or OK and a
\* park that failed to load, the step, the flags, the category and the world
\* are what they were before Convert-save-to-scenario was invoked, and no
\* editor window has been opened.
C8_AsBeforeInvocation ==
    FailedCallback =>
        /\ Len(convertPre) = 1
        /\ convertPre[1] = Snapshot
        /\ ~Called(trace, "ContextOpenWindow")

\* C8 amended: such a callback leaves the step, the flags, the category and
\* the world as they were when it was delivered and opens no window, and
\* Convert-save-to-scenario itself changes none of the four.
C8_FailedCallbackChangesNothing ==
    [][(\/ lastOp'.op = "ConvertSaveToScenarioCallback" /\ lastOp'.ret = <<FALSE>>
        \/ lastOp'.op = "ConvertSaveToScenario") =>
           /\ EditorStep' = EditorStep
           /\ gScreenFlags' = gScreenFlags
           /\ ScenarioCategory' = ScenarioCategory
           /\ gameState' = gameState
           /\ (lastOp'.op = "ConvertSaveToScenarioCallback" =>
                   /\ ~Called(trace', "ContextOpenWindow")
                   /\ windows' \subseteq windows)]_vars

\* The park picked in the track manager failed to load and the track manager
\* is still active.
C8_Witness ==
    /\ FailedCallback
    /\ lastOp.outcome = "Load"
    /\ gScreenFlags = SCREEN_FLAGS_TRACK_MANAGER
    /\ EditorStep = "DesignsManager"

EditorModeBits ==
    {SCREEN_FLAGS_SCENARIO_EDITOR, SCREEN_FLAGS_TRACK_DESIGNER, SCREEN_FLAGS_TRACK_MANAGER}

\* C9: whenever an editor bit is set, exactly one of the scenario-editor,
\* track-designer and track-manager bits is set, and a callback that went
\* through has left exactly the scenario-editor bit set and the step
\* ObjectiveSelection, whatever the flags and step were when it arrived.
C9_OneEditorMode ==
    /\ TestFlags(gScreenFlags, SCREEN_FLAGS_EDITOR)
           => Cardinality(Bits(gScreenFlags) \cap EditorModeBits) = 1
    /\ (lastOp.op = "ConvertSaveToScenarioCallback" /\ lastOp.ret = <<TRUE>>)
           => /\ gScreenFlags = SCREEN_FLAGS_SCENARIO_EDITOR
              /\ EditorStep = "ObjectiveSelection"

\* The picker was opened on the title screen, the track designer was entered
\* and its step advanced, and then the callback went through.
C9_Witness ==
    /\ lastOp.op = "ConvertSaveToScenarioCallback"
    /\ lastOp.ret = <<TRUE>>
    /\ lastOp.before = <<SCREEN_FLAGS_TRACK_DESIGNER, "RollercoasterDesigner">>
    /\ Len(convertPre) = 1
    /\ convertPre[1].gScreenFlags = SCREEN_FLAGS_TITLE_DEMO
    /\ gScreenFlags = SCREEN_FLAGS_SCENARIO_EDITOR

\* C10: if an editor screen flag is set, the editor step is not Invalid.
C10_ActiveEditorHasStep ==
    TestFlags(gScreenFlags, SCREEN_FLAGS_EDITOR) => EditorStep \in EditorSteps \ {"Invalid"}

\* The track designer has been entered from the title screen, where the step
\* was Invalid.
C10_Witness ==
    /\ lastOp.op = "LoadTrackDesigner"
    /\ gScreenFlags = SCREEN_FLAGS_TRACK_DESIGNER
    /\ EditorStep = "ObjectSelection"
    /\ convertPre = << >>

\* C11: a set of flags f on an element that is followed by a clear of the same
\* flags on the same element leaves the element at the value it had before the
\* set with the bits of f removed.
C11_SetThenClear ==
    (lastOp.op = "ClearSelectedObject" /\ Len(lastOp.before) = 5) =>
        Slot(lastOp.before[1], lastOp.before[2]) = BitAndNot(lastOp.before[5], lastOp.before[3])

\* An element that held every flag had flag 1 set and cleared again.
C11_Witness ==
    /\ lastOp.op = "ClearSelectedObject"
    /\ Len(lastOp.before) = 5
    /\ lastOp.before[3] = 1
    /\ lastOp.before[5] = 255
    /\ Slot(lastOp.before[1], lastOp.before[2]) = 254

\* C12: a read leaves the list of every object type as it was, and a read at
\* an index that is not below the length of the list returns 0.
C12_GetChangesNothing ==
    [][lastOp'.op = "GetSelectedObjectFlags" =>
           /\ editorSelectedObjectFlags' = editorSelectedObjectFlags
           /\ (lastOp'.before[2] >= Len(editorSelectedObjectFlags[lastOp'.before[1]])
                   => lastOp'.ret = <<0>>)]_vars

\* A list that holds entries was read past its end.
C12_Witness ==
    /\ lastOp.op = "GetSelectedObjectFlags"
    /\ Len(editorSelectedObjectFlags[lastOp.before[1]]) > 0
    /\ lastOp.before[2] = Len(editorSelectedObjectFlags[lastOp.before[1]])
    /\ lastOp.ret = <<0>>

\* C13: a set at the null index changes nothing; a set at another index
\* leaves the other object types alone, grows the list of its type with zeros
\* to hold the index when it does not, or-s the flags into the element and
\* leaves the other elements alone; the same set made again changes nothing.
C13_SetContract ==
    [][lastOp'.op = "SetSelectedObject" =>
           LET objectType == lastOp'.before[1]
               index == lastOp'.before[2]
               flags == lastOp'.before[3]
               old == editorSelectedObjectFlags
               new == editorSelectedObjectFlags'
               oldLen == Len(old[objectType])
           IN  /\ index = OBJECT_ENTRY_INDEX_NULL => new = old
               /\ index # OBJECT_ENTRY_INDEX_NULL =>
                      /\ \A other \in ObjectTypes \ {objectType} : new[other] = old[other]
                      /\ Len(new[objectType]) = IF oldLen > index THEN oldLen ELSE index + 1
                      /\ \A j \in 1 .. Len(new[objectType]) :
                             new[objectType][j] =
                                 LET was == IF j <= oldLen THEN old[objectType][j] ELSE 0
                                 IN  IF j = index + 1 THEN ToByte(BitOr(was, flags)) ELSE was
               /\ SetSelectedObjectOf([editorSelectedObjectFlags |-> new], objectType, index,
                                      flags).editorSelectedObjectFlags = new]_vars

\* A set past the end of an empty list grew it by a zero and the element set.
C13_Witness ==
    /\ lastOp.op = "SetSelectedObject"
    /\ lastOp.before[2] = 1
    /\ lastOp.before[3] = 254
    /\ editorSelectedObjectFlags[lastOp.before[1]] = <<0, 254>>

\* C15: after Load, LoadTrackDesigner or LoadTrackManager every element of the
\* flag table reads 0, whatever sets and clears were made before.
C15_EntryPointClearsFlags ==
    lastOp.op \in {"Load", "LoadTrackDesigner", "LoadTrackManager"} =>
        \A objectType \in ObjectTypes, index \in Indexes : Slot(objectType, index) = 0

\* C15, as it holds: Load, LoadTrackDesigner and LoadTrackManager leave the
\* flag table as they found it.
C15_EntryPointKeepsFlags ==
    [][lastOp'.op \in {"Load", "LoadTrackDesigner", "LoadTrackManager"} =>
           editorSelectedObjectFlags' = editorSelectedObjectFlags]_vars

\* An editor mode was entered with flags set in the table.
C15_Witness ==
    /\ lastOp.op \in {"Load", "LoadTrackDesigner", "LoadTrackManager"}
    /\ gScreenFlags = SCREEN_FLAGS_TRACK_MANAGER
    /\ Slot("Ride", 0) = 255

\* The positions in a trace of the calls of one collaborator.
Positions(tr, what) == {i \in 1 .. Len(tr) : tr[i][1] = what}

\* C14: after LoadTrackDesigner or LoadTrackManager the owned tiles are those
\* with both coordinates in 2 .. MapSize - 3, the cash is that of the freshly
\* initialised world, and the land was put up for sale once and then bought
\* once, both with the no-spend flag.
C14_TrackEditorOwnsInterior ==
    lastOp.op \in {"LoadTrackDesigner", "LoadTrackManager"} =>
        /\ gameState.owned = {t \in Tiles : /\ t[1] >= 2 /\ t[1] <= gameState.MapSize - 3
                                            /\ t[2] >= 2 /\ t[2] <= gameState.MapSize - 3}
        /\ gameState.Cash = FreshWorld(gameState.MapSize).Cash
        /\ \E i, j \in 1 .. Len(trace) :
               /\ i < j
               /\ Positions(trace, "LandSetRightsAction::SetForSale") = {i}
               /\ Positions(trace, "LandBuyRightsAction::BuyLand") = {j}
               /\ trace[i][2] = "NO_SPEND"
               /\ trace[j][2] = "NO_SPEND"

\* The track designer was entered: the tile at (2, 2) is owned, the tiles of
\* the two outer rings are not.
C14_Witness ==
    /\ lastOp.op = "LoadTrackDesigner"
    /\ <<2, 2>> \in gameState.owned
    /\ <<1, 2>> \notin gameState.owned
    /\ gameState.MapSize = MapSizeN
    /\ Cardinality(gameState.owned) = (MapSizeN - 4) * (MapSizeN - 4)

\* The position in a trace of the one call of a collaborator with an argument,
\* 0 when there is none.
PositionOf(tr, what, arg) ==
    IF \E i \in 1 .. Len(tr) : tr[i] = <<what, arg>>
    THEN CHOOSE i \in 1 .. Len(tr) : tr[i] = <<what, arg>>
    ELSE 0

\* C16: in a cleanup with fromSave = true every clamp is made before the cash
\* is reset to the initial cash.
C16_AllClampsBeforeCashReset ==
    (lastOp.op = "ClearMapForEditing" /\ lastOp.arg = "fromSave") =>
        \A i \in Positions(trace, "clamp") :
            i < PositionOf(trace, "FinanceResetCashToInitial", "")

\* C16, as it holds: in a cleanup with fromSave = true the guest initial cash
\* and the initial cash are clamped before the cash is reset, so that the cash
\* is the clamped initial cash; the bank loan, the maximum bank loan and the
\* interest rate are clamped after the reset, in that order.
C16_CashClampsBeforeCashReset ==
    (lastOp.op = "ClearMapForEditing" /\ lastOp.arg = "fromSave") =>
        /\ 0 < PositionOf(trace, "clamp", "GuestInitialCash")
        /\ PositionOf(trace, "clamp", "GuestInitialCash") < PositionOf(trace, "clamp", "InitialCash")
        /\ PositionOf(trace, "clamp", "InitialCash")
               < PositionOf(trace, "FinanceResetCashToInitial", "")
        /\ PositionOf(trace, "FinanceResetCashToInitial", "")
               < PositionOf(trace, "clamp", "BankLoan")
        /\ PositionOf(trace, "clamp", "BankLoan") < PositionOf(trace, "clamp", "MaxBankLoan")
        /\ PositionOf(trace, "clamp", "MaxBankLoan")
               < PositionOf(trace, "clamp", "BankLoanInterestRate")
        /\ Cardinality(Positions(trace, "clamp")) = 5
        /\ Cardinality(Positions(trace, "FinanceResetCashToInitial")) = 1
        /\ gameState.Cash = gameState.InitialCash
        /\ gameState.Cash <= 100000

\* A cleanup with fromSave = true limited the initial cash, reset the cash to
\* the limit and then limited the bank loan.
C16_Witness ==
    /\ lastOp.op = "ClearMapForEditing"
    /\ lastOp.arg = "fromSave"
    /\ gameState.Cash = 100000
    /\ gameState.BankLoan = GBP(5000000)
    /\ PositionOf(trace, "FinanceResetCashToInitial", "") < PositionOf(trace, "clamp", "BankLoan")

\* The window that belongs to an editor step, "" for a step that has none.
WindowOfStep(step) ==
    IF step = "ObjectSelection" THEN "EditorObjectSelection"
    ELSE IF step = "InventionsListSetUp" THEN "EditorInventionList"
    ELSE IF step = "OptionsSelection" THEN "EditorScenarioOptions"
    ELSE IF step = "ObjectiveSelection" THEN "EditorObjectiveOptions"
    ELSE ""

\* C17: OpenWindowsForCurrentStep changes nothing and calls nothing when no
\* editor flag is set or the step has no window; otherwise it leaves flags,
\* step and world alone, closes no window, opens at most one window, and the
\* window it opens is that of the current step and was not open.
C17_OpensOnlyTheStepWindow ==
    [][lastOp'.op = "OpenWindowsForCurrentStep" =>
           LET opened == Positions(trace', "ContextOpenWindow")
           IN  /\ (~TestFlags(gScreenFlags, SCREEN_FLAGS_EDITOR) \/ WindowOfStep(EditorStep) = "") =>
                      /\ trace' = << >>
                      /\ windows' = windows
                      /\ objects' = objects
               /\ gScreenFlags' = gScreenFlags
               /\ EditorStep' = EditorStep
               /\ ScenarioCategory' = ScenarioCategory
               /\ gameState' = gameState
               /\ editorSelectedObjectFlags' = editorSelectedObjectFlags
               /\ Cardinality(opened) <= 1
               /\ \A i \in opened : /\ trace'[i][2] = WindowOfStep(EditorStep)
                                    /\ trace'[i][2] \notin windows
               /\ windows' = windows \cup {trace'[i][2] : i \in opened}]_vars

\* A second call at the inventions-list step found the window open and opened
\* nothing.
C17_Witness ==
    /\ lastOp.op = "OpenWindowsForCurrentStep"
    /\ gScreenFlags = SCREEN_FLAGS_SCENARIO_EDITOR
    /\ EditorStep = "InventionsListSetUp"
    /\ "EditorInventionList" \in windows
    /\ trace = << >>

\* C18: OpenWindowsForCurrentStep unloads the objects exactly when the step is
\* ObjectSelection, the track-manager flag is set and neither the
\* object-selection window nor the install-track window is open, and it then
\* opens the object-selection window after the unload; at the step
\* ObjectSelection with either window open it unloads and opens nothing.
C18_UnloadOnlyBeforeObjectSelection ==
    [][lastOp'.op = "OpenWindowsForCurrentStep" =>
           LET unloads == Positions(trace', "ObjectManager::UnloadAll")
               opened == Positions(trace', "ContextOpenWindow")
               found == {"EditorObjectSelection", "InstallTrack"} \cap windows # {}
           IN  /\ unloads # {} <=>
                      /\ EditorStep = "ObjectSelection"
                      /\ TestFlags(gScreenFlags, SCREEN_FLAGS_TRACK_MANAGER)
                      /\ ~found
               /\ unloads # {} =>
                      /\ Cardinality(unloads) = 1
                      /\ opened # {}
                      /\ \A u \in unloads, o \in opened :
                             u < o /\ trace'[o][2] = "EditorObjectSelection"
                      /\ objects' = {}
               /\ unloads = {} => objects' = objects
               /\ (EditorStep = "ObjectSelection" /\ found) =>
                      /\ trace' = << >>
                      /\ windows' = windows]_vars

\* The track manager unloaded the objects and then opened the object
\* selection.
C18_Witness ==
    /\ lastOp.op = "OpenWindowsForCurrentStep"
    /\ gScreenFlags = SCREEN_FLAGS_TRACK_MANAGER
    /\ trace = << <<"ObjectManager::UnloadAll", "">>, <<"ContextOpenWindow", "EditorObjectSelection">> >>
    /\ objects = {}

\* The install-track window was open at the object selection of the track
\* manager and of another mode: nothing was unloaded or opened.
C18_WitnessFound ==
    /\ lastOp.op = "OpenWindowsForCurrentStep"
    /\ EditorStep = "ObjectSelection"
    /\ gScreenFlags = SCREEN_FLAGS_SCENARIO_EDITOR
    /\ "InstallTrack" \in windows
    /\ "EditorObjectSelection" \notin windows
    /\ objects # {}

IsOpenWindowCall(e) == e[1] = "ContextOpenWindow"

\* The calls that read a file or load objects.
LoaderCalls == {"Context::LoadParkFromFile", "ParkImporter::Load", "ObjectManager::LoadObjects",
                "ParkImporter::Import"}

\* C19: LoadLandscape closes all windows as its first call, before any call
\* that reads the file or loads objects; after a call that failed, for an
\* unknown extension too, no window is open and none was opened; after a call
\* that succeeded the main window, the top toolbar and the bottom toolbar were
\* opened, in this order and after the last call of the cleanup.
C19_WindowsClosedFirst ==
    lastOp.op = "LoadLandscape" =>
        /\ Len(trace) >= 1
        /\ Positions(trace, "WindowCloseAll") = {1}
        /\ \A i \in 1 .. Len(trace) : trace[i][1] \in LoaderCalls => i > 1
        /\ lastOp.ret = <<FALSE>> =>
               /\ windows = {}
               /\ Positions(trace, "ContextOpenWindow") = {}
        /\ lastOp.ret = <<TRUE>> =>
               /\ SelectSeq(trace, IsOpenWindowCall) =
                      << <<"ContextOpenWindow", "MainWindow">>,
                         <<"ContextOpenWindow", "TopToolbar">>,
                         <<"ContextOpenWindow", "EditorBottomToolbar">> >>
               /\ PositionOf(trace, "News::InitQueue", "") > 0
               /\ \A i \in Positions(trace, "ContextOpenWindow") :
                      /\ i > PositionOf(trace, "News::InitQueue", "")
                      /\ i > PositionOf(trace, "ClimateReset", "")
                      /\ \A j \in Positions(trace, "clamp") : i > j
               /\ \E i \in 1 .. Len(trace) : trace[i][1] \in LoaderCalls

\* A landscape was loaded: the three editor windows are the open ones.
C19_Witness ==
    /\ lastOp.op = "LoadLandscape"
    /\ lastOp.ret = <<TRUE>>
    /\ windows = {"MainWindow", "TopToolbar", "EditorBottomToolbar"}
    /\ Positions(trace, "clamp") # {}

\* A load of a file with an unknown extension left no window open.
C19_WitnessUnknown ==
    /\ lastOp.op = "LoadLandscape"
    /\ lastOp.arg = ".td6"
    /\ gScreenFlags = SCREEN_FLAGS_TRACK_MANAGER
    /\ windows = {}

IsSearchCall(e) == e[1] = "FootpathIsConnectedToMapEdge"

\* The search from an entrance against its direction, as it is recorded.
SearchCall(entrance, flags) ==
    <<"FootpathIsConnectedToMapEdge",
      ToString(<<entrance.loc, DirectionReverse(entrance.direction), flags>>)>>

\* The first entrance of the list whose search does not succeed, one past the
\* list when every search succeeds.
FirstFailing(w) ==
    LET failing == {j \in 1 .. Len(w.Entrances) :
                        FootpathSearch(w, w.Entrances[j], DirectionReverse(w.Entrances[j].direction))
                            # "FOOTPATH_SEARCH_SUCCESS"}
    IN  IF failing = {} THEN Len(w.Entrances) + 1
        ELSE CHOOSE j \in failing : \A k \in failing : j <= k

\* C20: CheckPark searches from no entrance when no land is owned or the list
\* of entrances is empty and then leaves the ownership alone; otherwise it
\* searches from the entrances in list order up to the first whose search does
\* not succeed, follows each search that succeeds by one search that unowns
\* the route, and is not ok when a search did not succeed; the land owned
\* afterwards is the land owned before without the routes of the entrances
\* before the first failing one.
C20_UnownsRoutesBeforeFirstFailure ==
    [][lastOp'.op = "CheckPark" =>
           LET w == gameState
               n == Len(w.Entrances)
               j == FirstFailing(w)
               searches == SelectSeq(trace', IsSearchCall)
               expected == [k \in 1 .. (2 * (j - 1) + (IF j <= n THEN 1 ELSE 0)) |->
                               SearchCall(w.Entrances[(k + 1) \div 2],
                                          IF k % 2 = 1 THEN 0
                                          ELSE FOOTPATH_CONNECTED_MAP_EDGE_UNOWN)]
           IN  IF w.owned = {} \/ n = 0
               THEN /\ searches = << >>
                    /\ gameState'.owned = w.owned
                    /\ lastOp'.ret[1] = FALSE
               ELSE /\ searches = expected
                    /\ gameState'.owned =
                           w.owned \ UNION {Route(w.Entrances[i].loc,
                                                  DirectionReverse(w.Entrances[i].direction)) :
                                                i \in 1 .. j - 1}
                    /\ j <= n => lastOp'.ret[1] = FALSE
                    /\ lastOp'.ret[1] = TRUE => Len(searches) = 2 * n]_vars

\* CheckPark failed at the second entrance after it had unowned the route of
\* the first: the one tile counted by UpdateSize is no longer owned.
C20_Witness ==
    /\ lastOp.op = "CheckPark"
    /\ lastOp.ret[1] = FALSE
    /\ Len(gameState.Entrances) = 2
    /\ Len(SelectSeq(trace, IsSearchCall)) = 3
    /\ gameState.ParkSize = 1
    /\ gameState.owned = {}

\* CheckPark succeeded on two entrances and searched twice from each.
C20_WitnessOk ==
    /\ lastOp.op = "CheckPark"
    /\ lastOp.ret[1] = TRUE
    /\ Len(gameState.Entrances) = 2
    /\ Len(SelectSeq(trace, IsSearchCall)) = 4

====
